---- MODULE Spec2Model ----
(***************************************************************************)
(* Model of simul/reproducible_builds/crawler.py: the reproducible-build   *)
(* crawler.  For every package it fetches the build report, writes a       *)
(* Dockerfile (bootstrap, snapshot sources, dependencies, source fetch,    *)
(* build), builds it in a container, compares the hash of the produced     *)
(* binary with the recorded one and files the outcome in one of three      *)
(* lists, which are saved as a csv file at the end.                        *)
(*                                                                         *)
(* Python strings are sequences of one-character strings, so that split,   *)
(* replace, partition and the `in` test are computed character by          *)
(* character as the interpreter computes them.  Python indexes from 0,     *)
(* TLA+ from 1: words[1] of the source is words[2] here.                   *)
(***************************************************************************)
EXTENDS Integers, Sequences, FiniteSets, TLC

VARIABLES
    packages,       \* the list returned by get_packages (line 127)
    k,              \* position of the main loop in packages (0 before the first)
    p,              \* loop variable of line 132
    pc,             \* position of the program
    build_time,     \* line 138
    snapsoup,       \* the archive listing last fetched by find_snapshots (line 65)
    f,              \* content of the file Dockerfile: the chunks written so far
    fopen,          \* whether the handle f is open
    fpkg,           \* the loop position that last opened (truncated) Dockerfile
    lines,          \* the lines of the build-info page consumed so far (line 149)
    line,           \* loop variable of line 154
    shaflag, dflag, \* line 150
    version, name, sha, binary, dir, short_version, size,   \* line 151
    first, i,       \* lines 152, 153
    process,        \* exit status of the last docker build (line 45)
    images,         \* tags of the images the container engine holds
    builds,         \* one entry per docker build: what it read
    computed_hash, wtime, utime, stime,                       \* line 202
    hash_match, hash_differ, failed,                          \* line 130
    csv,            \* rows of reprotest.csv, <<>> while it is not written
    arg, ret        \* argument and successive results of a function under test

loopvars == <<packages, k, p, build_time, snapsoup>>
filevars == <<f, fopen, fpkg>>
scanvars == <<lines, line, shaflag, dflag, version, name, sha, binary, dir,
              short_version, size, first, i>>
buildvars == <<process, images, builds, computed_hash, wtime, utime, stime>>
outvars == <<hash_match, hash_differ, failed, csv>>
funvars == <<arg, ret>>
vars == <<pc, loopvars, filevars, scanvars, buildvars, outvars, funvars>>

(***************************************************************************)
(* Bounds of the model.                                                    *)
(***************************************************************************)
MaxPkgs == 2        \* packages in a run (Spec)
MaxScanLines == 4   \* lines of a build-info page (SpecScan)
MaxStamp == 3       \* snapshot timestamps are 1..MaxStamp (SpecSnap)
MaxSnaps == 3       \* entries of an archive listing (SpecSnap)
MaxLen == 4         \* characters of a dependency line (SpecDpnd)
MaxSumLines == 4    \* lines of a build-info page (SpecSums)
MaxDepLines == 7    \* lines of a dependency block (SpecDeps)

(***************************************************************************)
(* Python string operations.                                               *)
(***************************************************************************)
\* str.replace(old, new) for a one-character old
RECURSIVE replace(_, _, _)
replace(s, old, new) ==
    IF s = <<>> THEN <<>>
    ELSE (IF Head(s) = old THEN new ELSE <<Head(s)>>) \o replace(Tail(s), old, new)

\* str.split(): the maximal runs of non-whitespace characters
RECURSIVE split_acc(_, _, _)
split_acc(s, cur, acc) ==
    IF s = <<>> THEN (IF cur = <<>> THEN acc ELSE Append(acc, cur))
    ELSE IF Head(s) = " "
         THEN split_acc(Tail(s), <<>>, IF cur = <<>> THEN acc ELSE Append(acc, cur))
         ELSE split_acc(Tail(s), Append(cur, Head(s)), acc)

split(s) == split_acc(s, <<>>, <<>>)

\* str.split(sep): the pieces between the separators, empty ones included
RECURSIVE split_sep_acc(_, _, _, _)
split_sep_acc(s, sep, cur, acc) ==
    IF s = <<>> THEN Append(acc, cur)
    ELSE IF Head(s) = sep
         THEN split_sep_acc(Tail(s), sep, <<>>, Append(acc, cur))
         ELSE split_sep_acc(Tail(s), sep, Append(cur, Head(s)), acc)

split_sep(s, sep) == split_sep_acc(s, sep, <<>>, <<>>)

\* str.partition(sep)[0]: the part before the first sep, all of s without one
RECURSIVE partition_head(_, _)
partition_head(s, sep) ==
    IF s = <<>> \/ Head(s) = sep THEN <<>>
    ELSE <<Head(s)>> \o partition_head(Tail(s), sep)

\* sub in s
contains(sub, s) ==
    \E j \in 0..(Len(s) - Len(sub)) : SubSeq(s, j + 1, j + Len(sub)) = sub

(***************************************************************************)
(* parse_dpnd: modifier for a dependency line (lines 29-35).               *)
(***************************************************************************)
parse_dpnd_keep_spaces(li) ==
    replace(replace(replace(li, ",", <<" ">>), ")", <<>>), "(", <<>>)

parse_dpnd_keep_parens(li) ==
    replace(replace(li, " ", <<>>), ",", <<" ">>)

parse_dpnd(li) ==
    LET li1 == replace(li, " ", <<>>)
        li2 == replace(li1, ",", <<" ">>)
        li3 == replace(li2, ")", <<>>)
        li4 == replace(li3, "(", <<>>)
    IN  li4

(***************************************************************************)
(* String literals of the source, character by character.                  *)
(***************************************************************************)
KW_Version == <<"V", "e", "r", "s", "i", "o", "n", ":">>
KW_Binary == <<"B", "i", "n", "a", "r", "y", ":">>
KW_Source == <<"S", "o", "u", "r", "c", "e", ":">>
KW_Checksums == <<"C", "h", "e", "c", "k", "s", "u", "m", "s", "-", "S", "h", "a", "2", "5", "6", ":">>
KW_Depends == <<"I", "n", "s", "t", "a", "l", "l", "e", "d", "-", "B", "u", "i", "l", "d", "-", "D", "e", "p", "e", "n", "d", "s", ":">>
DotDeb == <<".", "d", "e", "b">>

\* The value -1.0 of line 41 and -1 of line 209 (equal in Python).
Sentinel == -1

(***************************************************************************)
(* Inputs: package names, report lines, timestamps, listings and outputs   *)
(* of the container engine.                                                *)
(***************************************************************************)
SeqsUpTo(S, n) == UNION {[1..m -> S] : m \in 0..n}

PkgP == <<"p">>
PkgQ == <<"q">>
PkgNames == {PkgP, PkgQ}

L_Version == KW_Version \o <<" ", "1", "-", "1">>
L_Epoch == KW_Version \o <<" ", "2", ":", "1", "-", "1">>
L_Epoch2 == KW_Version \o <<" ", "1", ":", "2", ":", "3">>
L_VersionOnly == KW_Version
L_BinaryQP == KW_Binary \o <<" ", "q", " ", "p">>
L_BinaryQPR == KW_Binary \o <<" ", "q", " ", "p", " ", "r">>
L_Source == KW_Source \o <<" ", "s">>
L_Checksums == KW_Checksums
L_SumP == <<" ", "h", " ", "1", " ", "p", "_", "1", "-", "1", ".", "d", "e", "b">>
L_SumQ == <<" ", "g", " ", "2", " ", "q", "_", "1", "-", "1", ".", "d", "e", "b">>
L_Depends == KW_Depends
L_Dep == <<" ", "a", " ", "(", "=", " ", "1", ")", ",">>
L_Blank == <<>>

\* Build-info pages of a run over several packages: a page with a checksum
\* and dependencies, and a page without checksums
MainReports == {<<L_BinaryQP, L_Checksums, L_SumQ, L_Depends, L_Dep, L_Dep>>,
                <<L_BinaryQP, L_Depends, L_Dep>>}
MainLines == {L_BinaryQP, L_Checksums, L_SumQ, L_Depends, L_Dep}

\* s begins one of the pages of R
IsPrefixOfSome(s, R) == \E r \in R : Len(s) <= Len(r) /\ SubSeq(r, 1, Len(s)) = s

\* Lines of the pages of the scan of one report: every sequence of them of
\* 1..MaxScanLines lines is a page
ScanLines == {L_Version, L_Epoch, L_Epoch2, L_BinaryQP, L_Checksums, L_SumP,
              L_Depends, L_Dep}

\* An anchor of the archive listing: its text is a timestamp, its href names
\* the snapshot taken at that instant.
Anchor(t) == [string |-> t, href |-> t]

MainTimes == {1, 3}
MainListings == {<<Anchor(1), Anchor(2), Anchor(3)>>}

SnapTimes == 0..(MaxStamp + 1)
SnapListings == SeqsUpTo({Anchor(t) : t \in 1..MaxStamp}, MaxSnaps)

\* What `docker run ... sha256sum bina` prints when it succeeds
Out_H == <<"h", " ", " ", "/", "b">>
Out_G == <<"g", " ", " ", "/", "b">>
Out_Empty == <<>>
RunOutputs == {Out_H, Out_G, Out_Empty}

\* Elapsed wall, user and system time of a build, after round(.., 3)
TimeSamples == {<<2, 1, 0>>}

(***************************************************************************)
(* The state after line 130, before the first iteration of the main loop.  *)
(* Names not yet assigned hold the empty value of their type.              *)
(***************************************************************************)
Start(pkgs, imgs, x) ==
    /\ packages = pkgs
    /\ k = 0 /\ p = <<>> /\ pc = "loop"
    /\ build_time = 0 /\ snapsoup = <<>>
    /\ f = <<>> /\ fopen = FALSE /\ fpkg = 0
    /\ lines = <<>> /\ line = <<>>
    /\ shaflag = FALSE /\ dflag = FALSE
    /\ version = <<>> /\ name = <<>> /\ sha = <<>> /\ binary = <<>>
    /\ dir = <<>> /\ short_version = <<>> /\ size = <<>>
    /\ first = TRUE /\ i = 0
    /\ process = 0 /\ images = imgs /\ builds = <<>>
    /\ computed_hash = <<>> /\ wtime = Sentinel /\ utime = Sentinel /\ stime = Sentinel
    /\ hash_match = <<>> /\ hash_differ = <<>> /\ failed = <<>>
    /\ csv = <<>>
    /\ arg = x /\ ret = <<>>

Init == \E pkgs \in SeqsUpTo(PkgNames, MaxPkgs) : Start(pkgs, {}, <<>>)

\* One write to the Dockerfile: the call site, the text it interpolates and,
\* for a source line, the snapshot it names.
Chunk(kind, text, ref) == [kind |-> kind, text |-> text, ref |-> ref]

\* An uncaught exception ends the interpreter: nothing else changes.
Raise ==
    /\ pc' = "crashed"
    /\ UNCHANGED <<loopvars, filevars, scanvars, buildvars, outvars, funvars>>

(***************************************************************************)
(* for p in packages (line 132)                                            *)
(***************************************************************************)
NextPackage ==
    /\ pc = "loop"
    /\ IF k < Len(packages)
       THEN /\ k' = k + 1
            /\ p' = packages[k + 1]
            /\ pc' = "report"
       ELSE /\ pc' = "save"
            /\ UNCHANGED <<k, p>>
    /\ UNCHANGED <<packages, build_time, snapsoup, filevars, scanvars, buildvars,
                   outvars, funvars>>

(***************************************************************************)
(* Fetch the report page and retrieve the build time (lines 133-138).      *)
(* ok is FALSE when urlopen raises or the page has no build-time span.     *)
(***************************************************************************)
FetchReport(ok, bt) ==
    /\ pc = "report"
    /\ IF ok
       THEN /\ build_time' = bt
            /\ pc' = "open"
            /\ UNCHANGED <<packages, k, p, snapsoup, filevars, scanvars, buildvars,
                           outvars, funvars>>
       ELSE Raise

(***************************************************************************)
(* f = open('Dockerfile', 'w'); f.write(templates.Header1) (lines 140-141) *)
(***************************************************************************)
OpenRecipe ==
    /\ pc = "open"
    /\ f' = <<Chunk("Header1", <<>>, 0)>>
    /\ fopen' = TRUE
    /\ fpkg' = k
    /\ pc' = "snapshots"
    /\ UNCHANGED <<loopvars, scanvars, buildvars, outvars, funvars>>

(***************************************************************************)
(* find_snapshots (lines 61-90), called at line 142.                       *)
(***************************************************************************)
\* lines 66-72: the snapshots before the build, up to the first that is not
\* <= for < at line 69
RECURSIVE snapbuf_of_le(_, _)
snapbuf_of_le(anchors, bt) ==
    IF anchors = <<>> THEN <<>>
    ELSE IF Head(anchors).string <= bt
         THEN <<Head(anchors)>> \o snapbuf_of_le(Tail(anchors), bt)
         ELSE <<>>

\* the break of line 72 missing
snapbuf_of_no_break(anchors, bt) ==
    SelectSeq(anchors, LAMBDA a : a.string < bt)

RECURSIVE snapbuf_of(_, _)
snapbuf_of(anchors, bt) ==
    IF anchors = <<>> THEN <<>>
    ELSE IF Head(anchors).string < bt
         THEN <<Head(anchors)>> \o snapbuf_of(Tail(anchors), bt)
         ELSE <<>>

\* lines 75-90: the source lines written for the buffer
snapshot_sources(snapbuf) ==
    LET n == Len(snapbuf)
    IN  IF n > 1
        THEN <<Chunk("deb stretch", <<>>, snapbuf[n - 1].href),
               Chunk("deb sid", <<>>, snapbuf[n - 1].href),
               Chunk("deb stretch", <<>>, snapbuf[n].href),
               Chunk("deb sid", <<>>, snapbuf[n].href)>>
        ELSE IF n = 1
             THEN <<Chunk("deb stretch", <<>>, snapbuf[n].href),
                    Chunk("deb sid", <<>>, snapbuf[n].href)>>
             ELSE <<>>

\* ok is FALSE when urlopen raises or an anchor's text is no timestamp
find_snapshots(ok, listing) ==
    /\ pc = "snapshots"
    /\ IF ok
       THEN /\ snapsoup' = listing
            /\ f' = f \o snapshot_sources(snapbuf_of(listing, build_time))
            /\ pc' = "info"
            /\ UNCHANGED <<packages, k, p, build_time, fopen, fpkg, scanvars,
                           buildvars, outvars, funvars>>
       ELSE Raise

(***************************************************************************)
(* f.write(templates.Header2), fetch of the build-info page and reset of   *)
(* the scan (lines 143-153).                                               *)
(***************************************************************************)
\* line 151 missing: the metadata of the previous package stay
FetchBuildInfo_keeps_metadata(ok) ==
    /\ pc = "info"
    /\ IF ok
       THEN /\ f' = Append(f, Chunk("Header2", <<>>, 0))
            /\ lines' = <<>>
            /\ shaflag' = FALSE /\ dflag' = FALSE
            /\ first' = TRUE
            /\ i' = 0
            /\ pc' = "scan"
            /\ UNCHANGED <<loopvars, fopen, fpkg, line, version, name, sha, binary,
                           dir, short_version, size, buildvars, outvars, funvars>>
       ELSE /\ f' = Append(f, Chunk("Header2", <<>>, 0))
            /\ pc' = "crashed"
            /\ UNCHANGED <<loopvars, fopen, fpkg, scanvars, buildvars, outvars, funvars>>

FetchBuildInfo(ok) ==
    /\ pc = "info"
    /\ IF ok
       THEN /\ f' = Append(f, Chunk("Header2", <<>>, 0))
            /\ lines' = <<>>
            /\ shaflag' = FALSE /\ dflag' = FALSE
            /\ version' = <<>> /\ name' = <<>> /\ sha' = <<>> /\ binary' = <<>>
            /\ dir' = <<>> /\ short_version' = <<>> /\ size' = <<>>
            /\ first' = TRUE
            /\ i' = 0
            /\ pc' = "scan"
            /\ UNCHANGED <<loopvars, fopen, fpkg, line, buildvars, outvars, funvars>>
       ELSE /\ f' = Append(f, Chunk("Header2", <<>>, 0))
            /\ pc' = "crashed"
            /\ UNCHANGED <<loopvars, fopen, fpkg, scanvars, buildvars, outvars, funvars>>

(***************************************************************************)
(* One iteration of `for line in lines` (lines 154-191).                   *)
(***************************************************************************)
\* lines 159-163: short_version for the value of a Version: line
short_version_of(value) ==
    IF contains(<<":">>, value) THEN split_sep(value, ":")[2] ELSE value

\* lines 165-168: the name for a Binary: line of the report of package pkg
binary_name(pkg, l, words) ==
    IF contains(<<" ">> \o pkg \o <<" ">>, l) THEN pkg ELSE words[2]

\* line 172: the test of a line under an armed Checksums-Sha256: header
checksum_match_any_deb(words, nm, sv) ==
    Len(words) > 2 /\ contains(DotDeb, words[3])

checksum_match(words, nm, sv) ==
    /\ Len(words) > 2
    /\ contains(nm \o <<"_">> \o sv, words[3])
    /\ contains(DotDeb, words[3])

\* words[1] of lines 159-170 raises IndexError on a keyword without a value
scan_raises(pkg, l) ==
    LET words == split(l)
    IN  /\ Len(words) = 1
        /\ \/ words[1] = KW_Version
           \/ words[1] = KW_Binary /\ ~contains(<<" ">> \o pkg \o <<" ">>, l)
           \/ words[1] = KW_Source

\* lines 184-188: what is written before the i1-th dependency line l
\* the test of the line missing at line 185
dependency_separator_every_third(i1, l) ==
    IF i1 % 3 = 1
    THEN Chunk("separator", <<" ", "\\", " ", "\n">>, 0)
    ELSE Chunk("separator", <<" ">>, 0)

dependency_separator(i1, l) ==
    IF i1 % 3 = 1 /\ l # <<>>
    THEN Chunk("separator", <<" ", "\\", " ", "\n">>, 0)
    ELSE Chunk("separator", <<" ">>, 0)

\* the iteration with another test at line 155 (meta: the line is parsed as
\* data about the package) and with or without line 176 (disarm)
ScanLine_with(l, meta, disarm) ==
    /\ pc = "scan"
    /\ lines' = Append(lines, l)
    /\ line' = l
    /\ IF meta
       THEN LET words == split(l)
                kw == IF Len(words) > 0 THEN words[1] ELSE <<>>
                version1 == IF kw = KW_Version THEN words[2] ELSE version
                short1 == IF kw = KW_Version THEN short_version_of(words[2])
                          ELSE short_version
                name1 == IF kw = KW_Binary THEN binary_name(p, l, words) ELSE name
                dir1 == IF kw = KW_Source THEN words[2] ELSE dir
                hit == shaflag /\ checksum_match(words, name1, short1)
            IN  IF scan_raises(p, l)
                THEN /\ pc' = "crashed"
                     /\ UNCHANGED <<shaflag, dflag, version, name, sha, binary, dir,
                                    short_version, size, first, i, f>>
                ELSE /\ version' = version1
                     /\ short_version' = short1
                     /\ name' = name1
                     /\ dir' = dir1
                     /\ binary' = IF hit THEN words[3] ELSE binary
                     /\ sha' = IF hit THEN words[1] ELSE sha
                     /\ size' = IF hit THEN words[2] ELSE size
                     /\ shaflag' = IF l = KW_Checksums THEN TRUE
                                   ELSE IF hit /\ disarm THEN FALSE ELSE shaflag
                     /\ dflag' = (l = KW_Depends)
                     /\ pc' = "scan"
                     /\ UNCHANGED <<first, i, f>>
       ELSE /\ i' = i + 1
            /\ first' = FALSE
            /\ f' = (IF first THEN f ELSE Append(f, dependency_separator(i + 1, l)))
                    \o <<Chunk("dependency", parse_dpnd(l), 0)>>
            /\ pc' = "scan"
            /\ UNCHANGED <<shaflag, dflag, version, name, sha, binary, dir,
                           short_version, size>>
    /\ UNCHANGED <<loopvars, fopen, fpkg, buildvars, outvars, funvars>>

\* a Checksums-Sha256: line of the dependency block parsed as data
ScanLine_leaves_dependencies(l) == ScanLine_with(l, ~dflag \/ l = KW_Checksums, TRUE)

\* line 176 missing: the flag stays armed after a matching line
ScanLine_stays_armed(l) == ScanLine_with(l, ~dflag, FALSE)

ScanLine(l) ==
    /\ pc = "scan"
    /\ lines' = Append(lines, l)
    /\ line' = l
    /\ IF ~dflag
       THEN LET words == split(l)
                kw == IF Len(words) > 0 THEN words[1] ELSE <<>>
                version1 == IF kw = KW_Version THEN words[2] ELSE version
                short1 == IF kw = KW_Version THEN short_version_of(words[2])
                          ELSE short_version
                name1 == IF kw = KW_Binary THEN binary_name(p, l, words) ELSE name
                dir1 == IF kw = KW_Source THEN words[2] ELSE dir
                hit == shaflag /\ checksum_match(words, name1, short1)
            IN  IF scan_raises(p, l)
                THEN /\ pc' = "crashed"
                     /\ UNCHANGED <<shaflag, dflag, version, name, sha, binary, dir,
                                    short_version, size, first, i, f>>
                ELSE /\ version' = version1
                     /\ short_version' = short1
                     /\ name' = name1
                     /\ dir' = dir1
                     /\ binary' = IF hit THEN words[3] ELSE binary
                     /\ sha' = IF hit THEN words[1] ELSE sha
                     /\ size' = IF hit THEN words[2] ELSE size
                     /\ shaflag' = IF l = KW_Checksums THEN TRUE
                                   ELSE IF hit THEN FALSE ELSE shaflag
                     /\ dflag' = (l = KW_Depends)
                     /\ pc' = "scan"
                     /\ UNCHANGED <<first, i, f>>
       ELSE /\ i' = i + 1
            /\ first' = FALSE
            /\ f' = (IF first THEN f ELSE Append(f, dependency_separator(i + 1, l)))
                    \o <<Chunk("dependency", parse_dpnd(l), 0)>>
            /\ pc' = "scan"
            /\ UNCHANGED <<shaflag, dflag, version, name, sha, binary, dir,
                           short_version, size>>
    /\ UNCHANGED <<loopvars, fopen, fpkg, buildvars, outvars, funvars>>

(***************************************************************************)
(* The end of the recipe and f.close() (lines 193-200), once the lines of  *)
(* the page are exhausted (str.split returns at least one line).  lines    *)
(* holds the lines consumed: the specifications say which pages exist.     *)
(***************************************************************************)
\* the build written before the source is fetched
recipe_tail_build_first ==
    <<Chunk("Closer", <<>>, 0),
      Chunk("WORKDIR /project", <<>>, 0),
      Chunk("WORKDIR /project/", dir \o <<"-">> \o partition_head(short_version, "-")
                                     \o <<"/">>, 0),
      Chunk("RUN dpkg-buildpackage", <<>>, 0),
      Chunk("RUN apt-get source", name \o <<"=">> \o version, 0),
      Chunk("WORKDIR /project", <<>>, 0)>>

recipe_tail ==
    <<Chunk("Closer", <<>>, 0),
      Chunk("WORKDIR /project", <<>>, 0),
      Chunk("RUN apt-get source", name \o <<"=">> \o version, 0),
      Chunk("WORKDIR /project/", dir \o <<"-">> \o partition_head(short_version, "-")
                                     \o <<"/">>, 0),
      Chunk("RUN dpkg-buildpackage", <<>>, 0),
      Chunk("WORKDIR /project", <<>>, 0)>>

FinishRecipe_left_open ==
    /\ pc = "scan"
    /\ Len(lines) >= 1
    /\ f' = f \o recipe_tail
    /\ pc' = "build"
    /\ UNCHANGED <<loopvars, fopen, fpkg, scanvars, buildvars, outvars, funvars>>

FinishRecipe ==
    /\ pc = "scan"
    /\ Len(lines) >= 1
    /\ f' = f \o recipe_tail
    /\ fopen' = FALSE
    /\ pc' = "build"
    /\ UNCHANGED <<loopvars, fpkg, scanvars, buildvars, outvars, funvars>>

(***************************************************************************)
(* compile_bin (lines 39-57), called at line 202.                          *)
(*   started: subprocess.run could start docker (it raises otherwise,      *)
(*            outside the try);                                            *)
(*   built:   docker build exited with status 0 and tagged the image;      *)
(*   ran:     docker run ... sha256sum exited with status 0 and printed    *)
(*            out, which needs an image with the tag;                      *)
(*   sampled: psutil.cpu_times() of line 51 returned;                      *)
(*   t:       the times measured.                                          *)
(***************************************************************************)
compile_bin(started, built, ran, out, sampled, t) ==
    /\ pc = "build"
    /\ IF ~started
       THEN Raise
       ELSE LET images1 == IF built THEN images \cup {name} ELSE images
                comhash == IF ran THEN partition_head(out, " ") ELSE <<>>
                timed == ran /\ sampled
            IN  /\ ran => name \in images1
                /\ process' = (IF built THEN 0 ELSE 1)
                /\ images' = images1
                /\ builds' = Append(builds, [pkg |-> k, recipe_of |-> fpkg,
                                             closed |-> ~fopen,
                                             whole |-> f[Len(f)].kind = "WORKDIR /project"
                                                       /\ Len(f) > 1])
                /\ computed_hash' = comhash
                /\ wtime' = (IF timed THEN t[1] ELSE Sentinel)
                /\ utime' = (IF timed THEN t[2] ELSE Sentinel)
                /\ stime' = (IF timed THEN t[3] ELSE Sentinel)
                /\ pc' = "classify"
                /\ UNCHANGED <<loopvars, filevars, scanvars, outvars, funvars>>

(***************************************************************************)
(* The outcome of the package (lines 204-213).                             *)
(***************************************************************************)
\* the list a pair of hashes is filed in
outcome_nonempty_is_match(expected, computed) ==
    IF computed = expected THEN "y"
    ELSE IF computed = <<>> THEN "f" ELSE "n"

outcome(expected, computed) ==
    IF expected # <<>> /\ computed = expected THEN "y"
    ELSE IF computed = <<>> THEN "f" ELSE "n"

\* the else of line 207 missing: a matching package is also filed as differing
Classify_without_else ==
    /\ pc = "classify"
    /\ LET tag == outcome(sha, computed_hash)
       IN  /\ hash_match' = IF tag = "y"
                            THEN Append(hash_match,
                                        <<p, binary, size, wtime, utime, stime, "y">>)
                            ELSE hash_match
           /\ failed' = IF computed_hash = <<>>
                        THEN Append(failed,
                                    <<p, binary, size, Sentinel, Sentinel, Sentinel, "f">>)
                        ELSE failed
           /\ hash_differ' = IF computed_hash # <<>>
                             THEN Append(hash_differ,
                                         <<p, binary, size, wtime, utime, stime, "n">>)
                             ELSE hash_differ
    /\ pc' = "loop"
    /\ UNCHANGED <<loopvars, filevars, scanvars, buildvars, csv, funvars>>

Classify ==
    /\ pc = "classify"
    /\ LET tag == outcome(sha, computed_hash)
       IN  /\ hash_match' = IF tag = "y"
                            THEN Append(hash_match,
                                        <<p, binary, size, wtime, utime, stime, "y">>)
                            ELSE hash_match
           /\ failed' = IF tag = "f"
                        THEN Append(failed,
                                    <<p, binary, size, Sentinel, Sentinel, Sentinel, "f">>)
                        ELSE failed
           /\ hash_differ' = IF tag = "n"
                             THEN Append(hash_differ,
                                         <<p, binary, size, wtime, utime, stime, "n">>)
                             ELSE hash_differ
    /\ pc' = "loop"
    /\ UNCHANGED <<loopvars, filevars, scanvars, buildvars, csv, funvars>>

(***************************************************************************)
(* save_results (lines 94-100), called at line 215.                        *)
(***************************************************************************)
csv_header ==
    <<"package", "binary", "size", "wall_time", "cpu_user_time", "cpu_system_time",
      "outcome">>

\* the failed records written before the others
save_results_failed_first ==
    /\ pc = "save"
    /\ csv' = <<csv_header>> \o failed \o hash_match \o hash_differ
    /\ pc' = "done"
    /\ UNCHANGED <<loopvars, filevars, scanvars, buildvars, hash_match, hash_differ,
                   failed, funvars>>

save_results ==
    /\ pc = "save"
    /\ csv' = <<csv_header>> \o hash_match \o hash_differ \o failed
    /\ pc' = "done"
    /\ UNCHANGED <<loopvars, filevars, scanvars, buildvars, hash_match, hash_differ,
                   failed, funvars>>

(***************************************************************************)
(* A run of the program over a list of packages.                           *)
(***************************************************************************)
Next ==
    \/ NextPackage
    \/ \E ok \in BOOLEAN, bt \in MainTimes : FetchReport(ok, bt)
    \/ OpenRecipe
    \/ \E ok \in BOOLEAN, listing \in MainListings : find_snapshots(ok, listing)
    \/ \E ok \in BOOLEAN : FetchBuildInfo(ok)
    \/ \E l \in MainLines : IsPrefixOfSome(Append(lines, l), MainReports) /\ ScanLine(l)
    \/ lines \in MainReports /\ FinishRecipe
    \/ \E started, built, ran, sampled \in BOOLEAN, out \in RunOutputs,
          t \in TimeSamples : compile_bin(started, built, ran, out, sampled, t)
    \/ Classify
    \/ save_results

Spec == Init /\ [][Next]_vars

(***************************************************************************)
(* The scan of one report: a run over the single package p in which every  *)
(* sequence of 1..MaxScanLines lines of ScanLines is a build-info page.    *)
(***************************************************************************)
InitScan == Start(<<PkgP>>, {}, <<>>)

NextScan ==
    \/ NextPackage
    \/ \E ok \in BOOLEAN, bt \in {3} : FetchReport(ok, bt)
    \/ OpenRecipe
    \/ \E ok \in BOOLEAN, listing \in MainListings : find_snapshots(ok, listing)
    \/ \E ok \in BOOLEAN : FetchBuildInfo(ok)
    \/ \E l \in ScanLines : Len(lines) < MaxScanLines /\ ScanLine(l)
    \/ FinishRecipe
    \/ \E built, ran \in BOOLEAN, out \in RunOutputs, t \in TimeSamples :
          compile_bin(TRUE, built, ran, out, TRUE, t)
    \/ Classify
    \/ save_results

SpecScan == InitScan /\ [][NextScan]_vars

(***************************************************************************)
(* The snapshot selection: the run of one package up to the return of      *)
(* find_snapshots, over every build time and every archive listing of at   *)
(* most MaxSnaps entries, in any order.                                    *)
(***************************************************************************)
InitSnap == Start(<<PkgP>>, {}, <<>>)

NextSnap ==
    \/ NextPackage
    \/ \E ok \in BOOLEAN, bt \in SnapTimes : FetchReport(ok, bt)
    \/ OpenRecipe
    \/ \E ok \in BOOLEAN, listing \in SnapListings : find_snapshots(ok, listing)

SpecSnap == InitSnap /\ [][NextSnap]_vars

(***************************************************************************)
(* parse_dpnd applied to a line, and again to its result.                  *)
(***************************************************************************)
DpndChars == {"a", " ", ",", "(", ")"}
Ex_libfoo == <<"l", "i", "b", "f", "o", "o", " ", "(", ">", "=", " ", "1", ".", "0", ")", ",", " ", "l", "i", "b", "b", "a", "r">>
DpndInputs == SeqsUpTo(DpndChars, MaxLen) \cup {Ex_libfoo}

InitDpnd == \E x \in DpndInputs : Start(<<>>, {}, x)

apply_parse_dpnd ==
    /\ Len(ret) < 2
    /\ ret' = Append(ret, parse_dpnd(IF ret = <<>> THEN arg ELSE ret[Len(ret)]))
    /\ UNCHANGED <<pc, loopvars, filevars, scanvars, buildvars, outvars, arg>>

NextDpnd == apply_parse_dpnd

SpecDpnd == InitDpnd /\ [][NextDpnd]_vars

(***************************************************************************)
(* The checksum scan: a run over the single package p in which every        *)
(* sequence of 1..MaxSumLines lines of SumLines is a build-info page: the   *)
(* Version:, Binary: and Checksums-Sha256: lines in any order, with two     *)
(* different lines of checksums.                                           *)
(***************************************************************************)
SumLines == {L_Version, L_BinaryQP, L_Checksums, L_SumP, L_SumQ}

InitSums == Start(<<PkgP>>, {}, <<>>)

NextSums ==
    \/ NextPackage
    \/ \E ok \in BOOLEAN, bt \in {3} : FetchReport(ok, bt)
    \/ OpenRecipe
    \/ \E ok \in BOOLEAN, listing \in MainListings : find_snapshots(ok, listing)
    \/ \E ok \in BOOLEAN : FetchBuildInfo(ok)
    \/ \E l \in SumLines : Len(lines) < MaxSumLines /\ ScanLine(l)
    \/ FinishRecipe
    \/ \E built, ran \in BOOLEAN, out \in RunOutputs, t \in TimeSamples :
          compile_bin(TRUE, built, ran, out, TRUE, t)
    \/ Classify
    \/ save_results

SpecSums == InitSums /\ [][NextSums]_vars

(***************************************************************************)
(* The dependency block: a run over the single package p in which a        *)
(* build-info page is the Installed-Build-Depends: line followed by any    *)
(* sequence of at most MaxDepLines dependency lines and empty lines.       *)
(***************************************************************************)
DepLines == {L_Dep, L_Blank}

InitDeps == Start(<<PkgP>>, {}, <<>>)

NextDeps ==
    \/ NextPackage
    \/ \E ok \in BOOLEAN, bt \in {3} : FetchReport(ok, bt)
    \/ OpenRecipe
    \/ \E ok \in BOOLEAN, listing \in MainListings : find_snapshots(ok, listing)
    \/ \E ok \in BOOLEAN : FetchBuildInfo(ok)
    \/ \E l \in (IF lines = <<>> THEN {L_Depends} ELSE DepLines) :
          Len(lines) <= MaxDepLines /\ ScanLine(l)
    \/ FinishRecipe
    \/ \E built, ran \in BOOLEAN, out \in RunOutputs, t \in TimeSamples :
          compile_bin(TRUE, built, ran, out, TRUE, t)
    \/ Classify
    \/ save_results

SpecDeps == InitDeps /\ [][NextDeps]_vars

(***************************************************************************)
(* Properties.                                                             *)
(***************************************************************************)
\* the records of the three lists, each with the tag of the list holding it
Filed ==
    {<<"y", j>> : j \in 1..Len(hash_match)}
        \cup {<<"n", j>> : j \in 1..Len(hash_differ)}
        \cup {<<"f", j>> : j \in 1..Len(failed)}

RecordAt(e) ==
    IF e[1] = "y" THEN hash_match[e[2]]
    ELSE IF e[1] = "n" THEN hash_differ[e[2]] ELSE failed[e[2]]

\* C1: after a full run every submitted package has exactly one record, held
\* by exactly one of the three lists and tagged 'y', 'n' or 'f' as its list;
\* the lists hold as many records as packages were submitted.
Thm_C1 ==
    pc = "done" =>
        /\ Len(hash_match) + Len(hash_differ) + Len(failed) = Len(packages)
        /\ \A e \in Filed : RecordAt(e)[7] = e[1]
        /\ \A nm \in PkgNames :
              Cardinality({e \in Filed : RecordAt(e)[1] = nm})
                  = Cardinality({j \in 1..Len(packages) : packages[j] = nm})

Wit_C1 ==
    /\ pc = "done"
    /\ Len(packages) = 2
    /\ Len(hash_match) = 1
    /\ Len(failed) = 1

\* the outcome the classification rules give a pair of hashes
ClaimedOutcome(expected, computed) ==
    IF computed = <<>> THEN "f"
    ELSE IF expected # <<>> /\ computed = expected THEN "y"
    ELSE "n"

\* C2: the classification step files the package as match when the expected
\* hash is non-empty and equals the computed one, as failed when the computed
\* hash is empty whatever the expected one, and as differ otherwise.
Thm_C2 ==
    [][pc = "classify" =>
          LET b == ClaimedOutcome(sha, computed_hash)
          IN  /\ Len(hash_match') = Len(hash_match) + (IF b = "y" THEN 1 ELSE 0)
              /\ Len(hash_differ') = Len(hash_differ) + (IF b = "n" THEN 1 ELSE 0)
              /\ Len(failed') = Len(failed) + (IF b = "f" THEN 1 ELSE 0)]_vars

Wit_C2 ==
    /\ pc = "loop"
    /\ sha # <<>>
    /\ computed_hash = <<>>
    /\ Len(failed) = 1
    /\ Len(hash_differ) = 1

\* a Checksums-Sha256: line is among the lines ls
HeaderIn(ls) == \E j \in 1..Len(ls) : ls[j] = KW_Checksums

\* the third field of line l holds <nm>_<sv> and '.deb'
ThirdFieldNames(l, nm, sv) ==
    LET w == split(l)
    IN  /\ Len(w) >= 3
        /\ contains(nm \o <<"_">> \o sv, w[3])
        /\ contains(DotDeb, w[3])

\* C3: in a report without Checksums-Sha256: header, or without a line under
\* it whose third field holds <name>_<short_version> and '.deb', the expected
\* hash stays empty through the scan (it is set only by such a line read after
\* a header) and the package is never filed as match; when the build returns
\* a hash it is filed as differ.
Thm_C3 ==
    /\ [](~HeaderIn(lines) => sha = <<>>)
    /\ [](sha = <<>> /\ pc \in {"scan", "build", "classify", "loop", "save", "done"}
             => hash_match = <<>>)
    /\ [](sha = <<>> /\ computed_hash # <<>> /\ pc \in {"loop", "save", "done"}
             => Len(hash_differ) = 1)
    /\ [][sha' # sha =>
             /\ HeaderIn(lines)
             /\ ThirdFieldNames(line', name', short_version')]_vars

Wit_C3 ==
    /\ pc = "done"
    /\ \E h, j \in 1..Len(lines) :
          /\ h < j
          /\ lines[h] = KW_Checksums
          /\ lines[j] = L_SumP
          /\ \A d \in 1..j : lines[d] # KW_Depends
    /\ sha = <<>>
    /\ computed_hash # <<>>
    /\ Len(hash_differ) = 1

\* the source lines of the Dockerfile
IsSourceLine(c) == c.kind \in {"deb stretch", "deb sid"}
DebRefs == LET d == SelectSeq(f, IsSourceLine) IN [j \in 1..Len(d) |-> d[j].ref]

\* C4: find_snapshots writes no source line for a snapshot whose timestamp is
\* greater than or equal to the build timestamp.
Thm_C4 ==
    \A j \in 1..Len(f) :
        IsSourceLine(f[j]) =>
            \A a \in 1..Len(snapsoup) :
                snapsoup[a].href = f[j].ref => snapsoup[a].string < build_time

Wit_C4 ==
    /\ pc = "info"
    /\ Len(DebRefs) = 4
    /\ \E a \in 1..Len(snapsoup) : snapsoup[a].string >= build_time
    /\ \E a, b \in 1..Len(snapsoup) : a < b /\ snapsoup[a].string > snapsoup[b].string

\* the length of the longest prefix of the listing that is strictly earlier
\* than the build
EarlierPrefix ==
    CHOOSE n \in 0..Len(snapsoup) :
        /\ \A j \in 1..n : snapsoup[j].string < build_time
        /\ n < Len(snapsoup) => snapsoup[n + 1].string >= build_time

Min(a, b) == IF a < b THEN a ELSE b

\* each of the entries of s twice, in order
Twice(s) == [j \in 1..(2 * Len(s)) |-> s[(j + 1) \div 2]]

IsAscending(s) == \A a, b \in 1..Len(s) : a < b => s[a].string < s[b].string

\* C5: find_snapshots selects the last min(2, n) entries of the longest prefix
\* of the listing whose timestamps are strictly earlier than the build
\* timestamp, in listing order (a stretch and a sid line for each); for an
\* ascending listing these are the two most recent strictly-earlier entries.
Thm_C5 ==
    pc = "info" =>
        LET n == EarlierPrefix
            chosen == SubSeq(snapsoup, n - Min(2, n) + 1, n)
            earlier == SelectSeq(snapsoup, LAMBDA a : a.string < build_time)
        IN  /\ DebRefs = Twice([j \in 1..Len(chosen) |-> chosen[j].href])
            /\ [j \in 1..Len(SelectSeq(f, IsSourceLine)) |->
                   SelectSeq(f, IsSourceLine)[j].kind]
                 = [j \in 1..(2 * Len(chosen)) |->
                       IF j % 2 = 1 THEN "deb stretch" ELSE "deb sid"]
            /\ IsAscending(snapsoup) =>
                 chosen = SubSeq(earlier, Len(earlier) - Min(2, Len(earlier)) + 1,
                                 Len(earlier))

Wit_C5 ==
    /\ pc = "info"
    /\ snapsoup = <<Anchor(1), Anchor(2), Anchor(3)>>
    /\ build_time = 4
    /\ DebRefs = <<2, 2, 3, 3>>

\* the number of chunks of a kind in the Dockerfile
Count(kind) == Len(SelectSeq(f, LAMBDA c : c.kind = kind))

\* the place of a chunk in the order of the recipe (0: a WORKDIR /project
\* line, which both precedes the source retrieval and ends the recipe)
Rank(c) ==
    IF c.kind = "Header1" THEN 1
    ELSE IF IsSourceLine(c) THEN 2
    ELSE IF c.kind = "Header2" THEN 3
    ELSE IF c.kind \in {"dependency", "separator"} THEN 4
    ELSE IF c.kind = "Closer" THEN 5
    ELSE IF c.kind = "RUN apt-get source" THEN 6
    ELSE IF c.kind = "WORKDIR /project/" THEN 7
    ELSE IF c.kind = "RUN dpkg-buildpackage" THEN 8
    ELSE 0

\* the lines of the report after its first Installed-Build-Depends: line
DependencyLines ==
    IF \E j \in 1..Len(lines) : lines[j] = KW_Depends
    THEN LET d == CHOOSE j \in 1..Len(lines) :
                     /\ lines[j] = KW_Depends
                     /\ \A h \in 1..(j - 1) : lines[h] # KW_Depends
         IN  SubSeq(lines, d + 1, Len(lines))
    ELSE <<>>

\* C6: the recipe is written in the order bootstrap (Header1), snapshot source
\* lines, Header2 and the normalized dependency lines, source retrieval, build;
\* a finished recipe holds each of Header1, Header2, the source retrieval and
\* the build once, and its dependency lines are the normalized lines of the
\* report's dependency block, in order.
Thm_C6 ==
    /\ LET r == SelectSeq([j \in 1..Len(f) |-> Rank(f[j])], LAMBDA n : n # 0)
       IN  \A j \in 1..(Len(r) - 1) : r[j] <= r[j + 1]
    /\ (pc \in {"build", "classify", "loop", "save", "done"} /\ k >= 1) =>
          /\ Count("Header1") = 1 /\ f[1].kind = "Header1"
          /\ Count("Header2") = 1
          /\ Count("RUN apt-get source") = 1
          /\ Count("RUN dpkg-buildpackage") = 1
          /\ \A j \in 1..Len(f) :
                f[j].kind = "RUN apt-get source" => f[j].text = name \o <<"=">> \o version
          /\ LET deps == SelectSeq(f, LAMBDA c : c.kind = "dependency")
             IN  [j \in 1..Len(deps) |-> deps[j].text]
                    = [j \in 1..Len(DependencyLines) |-> parse_dpnd(DependencyLines[j])]

Wit_C6 ==
    /\ pc = "build"
    /\ Count("dependency") >= 2
    /\ Len(DebRefs) = 4

\* C7: a docker build reads a Dockerfile that is completely written and
\* closed and was written for the package being built; no package is built
\* twice; the Dockerfile is reopened for a package only when the builds of all
\* earlier packages have returned, and still holds the package's recipe when
\* its build and hash retrieval return.
Thm_C7 ==
    /\ \A j \in 1..Len(builds) :
          builds[j].closed /\ builds[j].whole /\ builds[j].recipe_of = builds[j].pkg
    /\ \A a, b \in 1..Len(builds) : a # b => builds[a].pkg # builds[b].pkg
    /\ pc = "build" => ~fopen
    /\ pc \in {"snapshots", "info", "scan", "build"} =>
          fpkg = k /\ Len(builds) = k - 1
    /\ pc = "classify" => fpkg = k /\ Len(builds) = k /\ builds[k].pkg = k

Wit_C7 ==
    /\ pc = "done"
    /\ Len(builds) = 2

\* C8 as stated: parse_dpnd(parse_dpnd(x)) = parse_dpnd(x) for every line x.
Orig_C8 == Len(ret) = 2 => ret[2] = ret[1]

\* C8, amended: parse_dpnd(parse_dpnd(x)) is parse_dpnd(x) with its spaces
\* removed, and equals parse_dpnd(x) exactly when x holds no comma.
Thm_C8 ==
    Len(ret) = 2 =>
        /\ ret[2] = SelectSeq(ret[1], LAMBDA c : c # " ")
        /\ (ret[2] = ret[1]) <=> ~contains(<<",">>, arg)

Wit_C8 ==
    /\ Len(ret) = 2
    /\ ~contains(<<",">>, arg)
    /\ contains(<<" ">>, arg)
    /\ contains(<<"(">>, arg)
    /\ ret[1] # <<>>
    /\ ret[2] = ret[1]

\* the parentheses of s are properly nested
RECURSIVE NestedFrom(_, _)
NestedFrom(s, depth) ==
    IF s = <<>> THEN depth = 0
    ELSE IF Head(s) = "(" THEN NestedFrom(Tail(s), depth + 1)
    ELSE IF Head(s) = ")" THEN depth > 0 /\ NestedFrom(Tail(s), depth - 1)
    ELSE NestedFrom(Tail(s), depth)

\* s without its parenthesized expressions
RECURSIVE WithoutGroups(_, _)
WithoutGroups(s, depth) ==
    IF s = <<>> THEN <<>>
    ELSE IF Head(s) = "(" THEN WithoutGroups(Tail(s), depth + 1)
    ELSE IF Head(s) = ")" THEN WithoutGroups(Tail(s), depth - 1)
    ELSE IF depth > 0 THEN WithoutGroups(Tail(s), depth)
    ELSE <<Head(s)>> \o WithoutGroups(Tail(s), depth)

\* s without spaces, its commas turned into spaces
Spaced(s) ==
    LET t == SelectSeq(s, LAMBDA c : c # " ")
    IN  [j \in 1..Len(t) |-> IF t[j] = "," THEN " " ELSE t[j]]

Ex_libfoo_bare == <<"l", "i", "b", "f", "o", "o", " ", "l", "i", "b", "b", "a", "r">>
Ex_libfoo_pinned == <<"l", "i", "b", "f", "o", "o", ">", "=", "1", ".", "0", " ", "l", "i", "b", "b", "a", "r">>

\* C9 as stated: parse_dpnd removes each parenthesized expression with
\* everything between the parentheses, removes the spaces and turns each comma
\* into a space; "libfoo (>= 1.0), libbar" gives "libfoo libbar".
Orig_C9 ==
    (ret # <<>> /\ NestedFrom(arg, 0)) =>
        /\ ret[1] = Spaced(WithoutGroups(arg, 0))
        /\ arg = Ex_libfoo => ret[1] = Ex_libfoo_bare

\* C9, amended: parse_dpnd removes the spaces and the parenthesis characters
\* only, keeping what stands between the parentheses, and turns each comma
\* into a space; "libfoo (>= 1.0), libbar" gives "libfoo>=1.0 libbar".
Thm_C9 ==
    ret # <<>> =>
        /\ ret[1] = Spaced(SelectSeq(arg, LAMBDA c : c \notin {"(", ")"}))
        /\ arg = Ex_libfoo => ret[1] = Ex_libfoo_pinned

Wit_C9 ==
    /\ arg = Ex_libfoo
    /\ Len(ret) = 1
    /\ ret[1] = Ex_libfoo_pinned

\* a ends b
IsSuffix(a, b) == Len(a) <= Len(b) /\ SubSeq(b, Len(b) - Len(a) + 1, Len(b)) = a

\* what follows the first ':' of value
AfterFirstColon(value) ==
    LET c == CHOOSE j \in 1..Len(value) :
                 value[j] = ":" /\ \A h \in 1..(j - 1) : value[h] # ":"
    IN  SubSeq(value, c + 1, Len(value))

\* C10: after a Version: line is parsed, version is the value of the line and
\* short_version is a suffix of it: the part after the ':' when the value has
\* one (or more), the whole value otherwise.
Orig_C10 ==
    (pc = "scan" /\ lines # <<>> /\ ~dflag /\ Len(split(line)) >= 2
        /\ split(line)[1] = KW_Version) =>
        LET value == split(line)[2]
        IN  /\ version = value
            /\ IsSuffix(short_version, version)
            /\ short_version = IF contains(<<":">>, value)
                               THEN AfterFirstColon(value) ELSE value

\* the three times hold the value compile_bin starts them with
SentinelTimes(w, u, s) == w = Sentinel /\ u = Sentinel /\ s = Sentinel

\* C11: compile_bin always returns to the main loop, which goes on to the
\* classification; when the image build failed it returns the empty hash, and
\* whenever it returns the empty hash the three times are -1.
Orig_C11 ==
    [][pc = "build" =>
          /\ pc' = "classify"
          /\ process' # 0 => computed_hash' = <<>>
          /\ computed_hash' = <<>> => SentinelTimes(wtime', utime', stime')]_vars

\* C12: a package whose image build exited with a failure status is filed as
\* failed, whatever images the engine holds.
Orig_C12 ==
    [][(pc = "classify" /\ process # 0) =>
          /\ Len(failed') = Len(failed) + 1
          /\ hash_match' = hash_match
          /\ hash_differ' = hash_differ]_vars

\* the tags of the rows of the csv file after its header row
RowTags == [j \in 1..(Len(csv) - 1) |-> csv[j + 1][7]]

\* the rows of the csv file that carry tag t, without the header row
RowsTagged(t) == SelectSeq(Tail(csv), LAMBDA r : r[7] = t)

TagOrder(t) == IF t = "y" THEN 1 ELSE IF t = "n" THEN 2 ELSE 3

\* C13: the csv file is written once, by the step that follows the last
\* package, when every package has its record; it is empty before.  It holds
\* the header row, then the match records, then the differ records, then the
\* failed records, each list in the order of its appends (the order of the
\* packages).
Thm_C13 ==
    /\ [](pc # "done" => csv = <<>>)
    /\ [][csv' # csv =>
             /\ csv = <<>>
             /\ pc = "save" /\ pc' = "done"
             /\ k = Len(packages)
             /\ Len(hash_match) + Len(hash_differ) + Len(failed) = Len(packages)]_vars
    /\ [](pc = "done" =>
             /\ Len(csv) = 1 + Len(packages)
             /\ csv[1] = csv_header
             /\ \A j \in 1..(Len(RowTags) - 1) :
                   TagOrder(RowTags[j]) <= TagOrder(RowTags[j + 1])
             /\ RowsTagged("y") = hash_match
             /\ RowsTagged("n") = hash_differ
             /\ RowsTagged("f") = failed
             /\ \A a, b \in 2..Len(csv) :
                   (a < b /\ csv[a][7] = csv[b][7] /\ packages = <<PkgP, PkgQ>>)
                       => (csv[a][1] = PkgP /\ csv[b][1] = PkgQ))

\* the first package failed and the second matched: the row of the second
\* precedes the row of the first
Wit_C13 ==
    /\ pc = "done"
    /\ packages = <<PkgP, PkgQ>>
    /\ Len(csv) = 3
    /\ RowTags = <<"y", "f">>
    /\ csv[2][1] = PkgQ
    /\ csv[3][1] = PkgP

\* C14: no step of a package (the fetch of its report page, of the archive
\* listing or of its build-info page, its scan or its build) ends the run:
\* the program goes on to the remaining packages and to the csv file.
Orig_C14 ==
    [][(pc \in {"report", "snapshots", "info", "scan", "build"})
          => (pc' # "crashed")]_vars

\* the state of a parser that has read no line (lines 150-153), with the
\* dependency chunks it has written
ParserReset ==
    [shaflag |-> FALSE, dflag |-> FALSE, version |-> <<>>, name |-> <<>>,
     sha |-> <<>>, binary |-> <<>>, dir |-> <<>>, short_version |-> <<>>,
     size |-> <<>>, first |-> TRUE, i |-> 0, out |-> <<>>]

\* the state of a parser in state st after it has read line l of the report
\* of package pkg
ParseLine(st, pkg, l) ==
    IF ~st.dflag
    THEN LET words == split(l)
             kw == IF Len(words) > 0 THEN words[1] ELSE <<>>
             short1 == IF kw = KW_Version THEN short_version_of(words[2])
                       ELSE st.short_version
             name1 == IF kw = KW_Binary THEN binary_name(pkg, l, words) ELSE st.name
             hit == st.shaflag /\ checksum_match(words, name1, short1)
         IN  [st EXCEPT !.version = IF kw = KW_Version THEN words[2] ELSE @,
                        !.short_version = short1,
                        !.name = name1,
                        !.dir = IF kw = KW_Source THEN words[2] ELSE @,
                        !.binary = IF hit THEN words[3] ELSE @,
                        !.sha = IF hit THEN words[1] ELSE @,
                        !.size = IF hit THEN words[2] ELSE @,
                        !.shaflag = IF l = KW_Checksums THEN TRUE
                                    ELSE IF hit THEN FALSE ELSE @,
                        !.dflag = (l = KW_Depends)]
    ELSE [st EXCEPT !.i = @ + 1,
                    !.first = FALSE,
                    !.out = (IF st.first THEN @
                             ELSE Append(@, dependency_separator(st.i + 1, l)))
                            \o <<Chunk("dependency", parse_dpnd(l), 0)>>]

\* the state of a parser that starts from ParserReset and reads the lines ls
RECURSIVE ParsedAlone(_, _)
ParsedAlone(pkg, ls) ==
    IF ls = <<>> THEN ParserReset
    ELSE ParseLine(ParsedAlone(pkg, SubSeq(ls, 1, Len(ls) - 1)), pkg, ls[Len(ls)])

\* the list the record of the package just classified was appended to
LastBucket ==
    LET tag == outcome(sha, computed_hash)
    IN  IF tag = "y" THEN hash_match ELSE IF tag = "n" THEN hash_differ ELSE failed

\* C15: whatever packages were processed before, the parser state, the recipe
\* and the record of a package are those of a run that processes the package
\* alone: the parser state is the one a parser reaches from its reset state
\* on the lines of the package's build-info page, the Dockerfile holds
\* Header1, the source lines of the package's listing and build time, Header2,
\* the dependency chunks of that parse and the tail of the recipe, and the
\* record holds the package, the binary and size of that parse and the times
\* and tag of the package's build result.
Thm_C15 ==
    (pc \in {"scan", "build", "classify", "loop"} /\ k >= 1) =>
        LET st == ParsedAlone(p, lines)
        IN  /\ <<shaflag, dflag, version, name, sha, binary, dir, short_version,
                 size, first, i>>
                 = <<st.shaflag, st.dflag, st.version, st.name, st.sha, st.binary,
                     st.dir, st.short_version, st.size, st.first, st.i>>
            /\ f = <<Chunk("Header1", <<>>, 0)>>
                     \o snapshot_sources(snapbuf_of(snapsoup, build_time))
                     \o <<Chunk("Header2", <<>>, 0)>>
                     \o st.out
                     \o (IF pc = "scan" THEN <<>> ELSE recipe_tail)
            /\ pc = "loop" =>
                 /\ LastBucket # <<>>
                 /\ LET r == LastBucket[Len(LastBucket)]
                        tag == outcome(st.sha, computed_hash)
                    IN  /\ r[1] = p /\ r[2] = st.binary /\ r[3] = st.size
                        /\ r[7] = tag
                        /\ <<r[4], r[5], r[6]>>
                             = IF tag = "f" THEN <<Sentinel, Sentinel, Sentinel>>
                               ELSE <<wtime, utime, stime>>

\* the second package, whose page has no checksums, after a first package
\* whose page gave an expected hash and that matched
Wit_C15 ==
    /\ pc = "loop"
    /\ k = 2
    /\ Len(hash_match) = 1
    /\ lines = <<L_BinaryQP, L_Depends, L_Dep>>
    /\ sha = <<>>
    /\ Len(hash_differ) = 1

\* the metadata captured by the scan
Metadata == <<version, short_version, name, dir, sha, size, binary>>

\* C16: in the scan of a report, dflag is true exactly when a line equal to
\* Installed-Build-Depends: has been read, and stays true; a line read while
\* dflag is false (the header line too) writes nothing to the Dockerfile; a
\* line read once dflag is true is written as a dependency line, after at
\* most one separator, and leaves version, short_version, name, dir, sha,
\* size and binary unchanged, whatever it starts with.
Thm_C16 ==
    /\ [](pc \in {"scan", "build"} =>
             (dflag <=> \E j \in 1..Len(lines) : lines[j] = KW_Depends))
    /\ [][(pc = "scan" /\ pc' = "scan" /\ ~dflag) => f' = f]_vars
    /\ [][(pc = "scan" /\ dflag) =>
             /\ pc' \in {"scan", "build"}
             /\ dflag'
             /\ Metadata' = Metadata
             /\ pc' = "scan" =>
                  /\ Len(f') \in {Len(f) + 1, Len(f) + 2}
                  /\ f'[Len(f')] = Chunk("dependency", parse_dpnd(line'), 0)
                  /\ SubSeq(f', 1, Len(f)) = f
                  /\ Len(f') = Len(f) + 2 => f'[Len(f) + 1].kind = "separator"]_vars

\* a Version:, a Checksums-Sha256: and a matching checksum line read after
\* the header of the dependency block
Wit_C16 ==
    /\ pc = "build"
    /\ lines = <<L_Depends, L_Version, L_Checksums, L_SumP>>
    /\ dflag
    /\ Metadata = <<<<>>, <<>>, <<>>, <<>>, <<>>, <<>>, <<>>>>
    /\ Count("dependency") = 3

\* line j of the report matched the test of line 172 when it was read, had
\* the flag been armed
MatchAt(j) ==
    LET st == ParsedAlone(p, SubSeq(lines, 1, j))
    IN  ThirdFieldNames(lines[j], st.name, st.short_version)

\* C17: a line read while the flag is armed whose third field holds
\* <name>_<short_version> and '.deb' sets sha, size and binary from its three
\* fields and disarms the flag; any other line leaves the three unchanged,
\* and only a Checksums-Sha256: line arms the flag.  So in a report whose
\* last Checksums-Sha256: header is followed by matching lines, the three come
\* from the first of them, whatever follows it under that header.
Thm_C17 ==
    /\ [][(pc = "scan" /\ pc' = "scan") =>
             IF shaflag /\ ~dflag /\ ThirdFieldNames(line', name', short_version')
             THEN /\ <<sha', size', binary'>>
                       = <<split(line')[1], split(line')[2], split(line')[3]>>
                  /\ ~shaflag'
             ELSE <<sha', size', binary'>> = <<sha, size, binary>>]_vars
    /\ [][(pc = "scan" /\ pc' = "scan" /\ ~shaflag /\ shaflag')
             => line' = KW_Checksums]_vars
    /\ [](pc \in {"scan", "build"} =>
             \A h, a \in 1..Len(lines) :
                 ( /\ h < a
                   /\ lines[h] = KW_Checksums
                   /\ \A j \in (h + 1)..Len(lines) : lines[j] # KW_Checksums
                   /\ \A j \in 1..a : lines[j] # KW_Depends
                   /\ MatchAt(a)
                   /\ \A j \in (h + 1)..(a - 1) : ~MatchAt(j) )
                 => <<sha, size, binary>>
                      = <<split(lines[a])[1], split(lines[a])[2], split(lines[a])[3]>>)

\* two different matching lines under one header: the first is taken
Wit_C17 ==
    /\ pc = "build"
    /\ lines = <<L_Checksums, L_SumP, L_SumQ>>
    /\ MatchAt(2) /\ MatchAt(3)
    /\ sha = <<"h">>
    /\ ~shaflag

\* the two separators of lines 186 and 188
Continuation == <<" ", "\\", " ", "\n">>
PlainSpace == <<" ">>

\* the chunks of the dependency block of the Dockerfile
DependencyBlock == SelectSeq(f, LAMBDA c : c.kind \in {"dependency", "separator"})

\* the dependency block holds the normalized dependency lines of the report,
\* one separator between two consecutive lines and nothing else, and follows
\* Header2 at once
BlockAlternates ==
    LET deps == DependencyLines
        blk == DependencyBlock
    IN  /\ Len(blk) = IF deps = <<>> THEN 0 ELSE 2 * Len(deps) - 1
        /\ \A j \in 1..Len(deps) :
              blk[2 * j - 1] = Chunk("dependency", parse_dpnd(deps[j]), 0)
        /\ \A j \in 1..(Len(deps) - 1) : blk[2 * j].kind = "separator"
        /\ \E h \in 1..Len(f) :
              /\ f[h].kind = "Header2"
              /\ SubSeq(f, h + 1, h + Len(blk)) = blk

\* C18 as stated: the separator between the dependency lines j and j + 1 is
\* the line continuation when j is a multiple of 3 and line j is not empty,
\* and a plain space otherwise.
Orig_C18 ==
    pc \in {"scan", "build"} =>
        /\ BlockAlternates
        /\ \A j \in 1..(Len(DependencyLines) - 1) :
              DependencyBlock[2 * j].text
                  = IF j % 3 = 0 /\ DependencyLines[j] # <<>>
                    THEN Continuation ELSE PlainSpace

\* C18, amended: the separator between the dependency lines j and j + 1 is
\* the line continuation when j is a multiple of 3 and line j + 1 is not
\* empty, and a plain space otherwise; nothing is written before the first
\* dependency line.
Thm_C18 ==
    pc \in {"scan", "build"} =>
        /\ BlockAlternates
        /\ \A j \in 1..(Len(DependencyLines) - 1) :
              DependencyBlock[2 * j].text
                  = IF j % 3 = 0 /\ DependencyLines[j + 1] # <<>>
                    THEN Continuation ELSE PlainSpace

\* a block whose fourth line is empty after a third that is not, and whose
\* seventh line is not empty after a sixth that is
Wit_C18 ==
    /\ pc = "build"
    /\ DependencyLines = <<L_Dep, L_Dep, L_Dep, L_Blank, L_Dep, L_Blank, L_Dep>>
    /\ DependencyBlock[6].text = PlainSpace
    /\ DependencyBlock[12].text = Continuation
    /\ Len(DependencyBlock) = 13

\* C19: when the scan of a report has ended with a non-empty expected hash,
\* binary contains <name>_<short_version> for the values name and
\* short_version have at the end of the scan, and contains '.deb'.
Orig_C19 ==
    (pc = "build" /\ sha # <<>>) =>
        /\ contains(name \o <<"_">> \o short_version, binary)
        /\ contains(DotDeb, binary)

\* C20: every record of the failed list has the three times -1, and every
\* record of the match and differ lists has three measured (non-negative)
\* times.
Orig_C20 ==
    /\ \A j \in 1..Len(failed) :
          SentinelTimes(failed[j][4], failed[j][5], failed[j][6])
    /\ \A j \in 1..Len(hash_match) :
          hash_match[j][4] >= 0 /\ hash_match[j][5] >= 0 /\ hash_match[j][6] >= 0
    /\ \A j \in 1..Len(hash_differ) :
          hash_differ[j][4] >= 0 /\ hash_differ[j][5] >= 0 /\ hash_differ[j][6] >= 0

====
